---- MODULE Spec2Model ----
(***************************************************************************)
(* Signaling gateway (server/index.js) and SFU orchestrator                *)
(* (server/voiceManager.js) of the discord-clone server.                   *)
(*                                                                         *)
(* A handler is a function from the server's state to its next state.  A  *)
(* handler that awaits a call into the mediasoup worker (createRouter,     *)
(* createWebRtcTransport, transport.connect, transport.produce,            *)
(* transport.consume) is cut at that await: the part before it is one      *)
(* function, the part after it is the function that resumes the handler    *)
(* when the call settles.  Awaits of promises that are already resolved    *)
(* (an async function that returns without I/O) are microtasks and cannot  *)
(* interleave with another event, so they do not cut a handler.            *)
(*                                                                         *)
(* Spec runs every handler to completion before the next event (the worker *)
(* answers at once); SpecAsync lets events arrive while calls are pending. *)
(***************************************************************************)
EXTENDS Integers, Sequences, FiniteSets, TLC

\* ---------------------------------------------------------------- bounds
MaxSockets    == 2   \* connections ever opened
MaxChannels   == 2   \* voice channel ids clients may name
MaxRouters    == 2   \* routers the worker creates
MaxTransports == 2   \* transports the worker creates
MaxProducers  == 1   \* producers the worker creates
MaxConsumers  == 1   \* consumers the worker creates
MaxPending    == 2   \* calls into the worker awaited at the same time

Sockets      == 1..MaxSockets
Channels     == 1..MaxChannels
TransportIds == 1..MaxTransports
ProducerIds  == 1..MaxProducers
Directions   == {"send", "recv"}
None         == 0

\* The web client sends its logged-in user's id with join_voice_channel; the
\* user object of user_online carries the same id.  One user per connection.
UserOf(s) == s

MaxJoins == 2
MaxServers == 1
MaxTextChannels == 2
MaxMessages == 3
MaxUuids == 8
Usernames == {"ann", "bob"}
Contents == {"hi"}
\* Ids a request can name: those handed out so far and one never handed out.
StoreIds == 1..MaxUuids

\* ---------------------------------------------------------------- state
VARIABLES
  connected,          \* sockets still connected (socket.connected)
  rooms,              \* socket.io rooms: socket -> set of channel ids joined
  onlineUsers,        \* index.js:158  Map socket.id -> user (keys)
  voiceChannelUsers,  \* index.js:159  Map channelId -> Map socket.id -> user
  routers,            \* voiceManager.js:10 Map channelId -> Router
  transports,         \* voiceManager.js:11 Map transportId -> Transport (keys)
  producers,          \* voiceManager.js:12 Map producerId -> {userId, channelId, kind}
  consumers,          \* voiceManager.js:13 Map consumerId -> Consumer (keys)
  userSessions,       \* voiceManager.js:14 Map socket.id -> session
  routerObj,          \* mediasoup Router objects, by creation order
  transportObj,       \* mediasoup WebRtcTransport objects
  producerObj,        \* mediasoup Producer objects
  consumerObj,        \* mediasoup Consumer objects
  pending,            \* calls into the worker that have not settled yet
  emitted,            \* messages sent to clients by the latest step, in order
  last,               \* the latest step: which handler ran, for whom
  closedSeen,         \* <<socket, producerId>> -> producer-closed deliveries so far
  hasLeft,            \* connected sockets whose leave_voice_channel was handled
                      \* and that have not sent join_voice_channel since
  announced,          \* connections that have sent user_online and have not
                      \* disconnected since
  client,             \* socket -> the state of its VoiceChannel component
  data,               \* index.js:39-52 the document in data.json
  uuids,              \* how many ids uuidv4() has handed out
  received,           \* socket -> the new_message events delivered to it, in order
  interrupted         \* sockets whose leave_voice_channel or disconnect was
                      \* handled while a call of theirs was awaiting the worker,
                      \* and that have not sent join_voice_channel since

vars == <<connected, rooms, onlineUsers, voiceChannelUsers, routers, transports,
          producers, consumers, userSessions, routerObj, transportObj,
          producerObj, consumerObj, pending, emitted, last, closedSeen, hasLeft,
          announced, client, data, uuids, received, interrupted>>

\* The state as one value, so that handlers compose.
State ==
  [connected |-> connected, rooms |-> rooms, onlineUsers |-> onlineUsers,
   voiceChannelUsers |-> voiceChannelUsers, routers |-> routers,
   transports |-> transports, producers |-> producers, consumers |-> consumers,
   userSessions |-> userSessions, routerObj |-> routerObj,
   transportObj |-> transportObj, producerObj |-> producerObj,
   consumerObj |-> consumerObj, pending |-> pending, emitted |-> emitted,
   last |-> last, closedSeen |-> closedSeen, hasLeft |-> hasLeft,
   announced |-> announced, client |-> client, data |-> data, uuids |-> uuids,
   received |-> received, interrupted |-> interrupted]

Apply(st) ==
  /\ connected' = st.connected
  /\ rooms' = st.rooms
  /\ onlineUsers' = st.onlineUsers
  /\ voiceChannelUsers' = st.voiceChannelUsers
  /\ routers' = st.routers
  /\ transports' = st.transports
  /\ producers' = st.producers
  /\ consumers' = st.consumers
  /\ userSessions' = st.userSessions
  /\ routerObj' = st.routerObj
  /\ transportObj' = st.transportObj
  /\ producerObj' = st.producerObj
  /\ consumerObj' = st.consumerObj
  /\ pending' = st.pending
  /\ emitted' = st.emitted
  /\ last' = st.last
  /\ closedSeen' = st.closedSeen
  /\ hasLeft' = st.hasLeft
  /\ announced' = st.announced
  /\ client' = st.client
  /\ data' = st.data
  /\ uuids' = st.uuids
  /\ received' = st.received
  /\ interrupted' = st.interrupted

\* ---------------------------------------------------------------- Map helpers
\* A JavaScript Map is a function whose DOMAIN is the set of its keys.
Has(m, k) == k \in DOMAIN m
MapSet(m, k, v) == [x \in DOMAIN m \cup {k} |-> IF x = k THEN v ELSE m[x]]
MapDelete(m, k) == [x \in DOMAIN m \ {k} |-> m[x]]
MapDeleteAll(m, ks) == [x \in DOMAIN m \ ks |-> m[x]]
EmptyMap == [x \in {} |-> None]

SeqToSet(q) == {q[i] : i \in 1..Len(q)}
Ids(objs) == 1..Len(objs)

RECURSIVE SetToSeq(_)
SetToSeq(S) ==
  IF S = {} THEN <<>>
  ELSE LET m == CHOOSE x \in S : \A y \in S : x <= y
       IN <<m>> \o SetToSeq(S \ {m})

\* ---------------------------------------------------------------- messages
\* A message to clients: `to` is the set of sockets it is delivered to.
Msg(to, ev, chan, id, set, ok) ==
  [to |-> to, ev |-> ev, chan |-> chan, id |-> id, set |-> set, ok |-> ok, error |-> ""]

\* io.emit(...): every connected socket.
IoEmit(st, ev, chan, set) == Msg(st.connected, ev, chan, None, set, TRUE)
\* socket.emit(...): the socket itself, if it is still connected.
SocketEmit(st, s, ev, chan, id, set) ==
  Msg({s} \cap st.connected, ev, chan, id, set, TRUE)
\* socket.to(room).emit(...): every socket in the room except the sender.
SocketToEmit(st, s, room, ev, id) ==
  Msg({x \in Sockets : room \in st.rooms[x]} \ {s}, ev, room, id, {}, TRUE)
\* io.to(room).emit(...): every socket in the room.
IoToEmit(st, room, ev, id, ok) ==
  Msg({x \in Sockets : room \in st.rooms[x]}, ev, room, id, {}, ok)
\* callback({success, ...}): the acknowledgement of a request-reply event.
Ack(st, s, ok) ==
  [Msg({s} \cap st.connected, "ack", None, None, {}, ok)
   EXCEPT !.error = IF ok THEN "" ELSE st.last.error]

\* Number of messages of `msgs` with event ev (and id p) delivered to s.
RECURSIVE Count(_, _, _, _)
Count(msgs, s, ev, p) ==
  IF msgs = <<>> THEN 0
  ELSE (IF s \in Head(msgs).to /\ Head(msgs).ev = ev /\ Head(msgs).id = p
        THEN 1 ELSE 0) + Count(Tail(msgs), s, ev, p)

\* The handler sends msgs.
Emit(st, msgs) ==
  [st EXCEPT !.emitted = @ \o msgs,
             !.closedSeen = [x \in Sockets \X ProducerIds |->
                               @[x] + Count(msgs, x[1], "producer-closed", x[2])]]

Step(op, s, chan, id, done, ok) ==
  [op |-> op, sock |-> s, chan |-> chan, id |-> id, done |-> done, ok |-> ok, error |-> ""]

\* A handler starts, suspends at an await, resumes, or ends.
Begin(st, op, s, ch) ==
  [st EXCEPT !.emitted = <<>>, !.last = Step(op, s, ch, None, FALSE, TRUE)]
Resumed(st, op, s, ch) ==
  [st EXCEPT !.emitted = <<>>, !.last = Step(op, s, ch, None, FALSE, TRUE)]
End(st, op, s, ch, id, ok) == [st EXCEPT !.last = Step(op, s, ch, id, TRUE, ok)]
\* throw new Error(message): the error travels to the catch block of the
\* handler, which reads its message.
Thrown(st, message) == [st EXCEPT !.last.error = message]
\* The message of the error a call into the worker rejects with.
WorkerError == "worker"

\* The handler of s's leave_voice_channel or disconnect starts while calls
\* of s may be awaiting the worker.
Interrupt(st, s) ==
  IF \E c \in st.pending : c.sock = s
  THEN [st EXCEPT !.interrupted = @ \cup {s}] ELSE st

\* VoiceChannel.jsx:6-22: the refs of the component before it has joined.
\* inbox holds the server's events that have arrived and are not handled
\* yet; tasks holds the coroutines of the component that await a reply or
\* the device; recvRequests counts the create-transport{recv} requests since
\* the join.
Unmounted ==
  [mounted |-> FALSE, device |-> FALSE, send |-> None, recv |-> None,
   recvConnected |-> FALSE, producer |-> None, consumers |-> {}, inbox |-> <<>>,
   tasks |-> {}, recvRequests |-> 0, joins |-> 0]

\* ---------------------------------------------------------------- Init
Init ==
  /\ connected = Sockets
  /\ rooms = [s \in Sockets |-> {}]
  /\ onlineUsers = {}
  /\ voiceChannelUsers = EmptyMap
  /\ routers = EmptyMap
  /\ transports = {}
  /\ producers = EmptyMap
  /\ consumers = {}
  /\ userSessions = EmptyMap
  /\ routerObj = <<>>
  /\ transportObj = <<>>
  /\ producerObj = <<>>
  /\ consumerObj = <<>>
  /\ pending = {}
  /\ emitted = <<>>
  /\ last = Step("init", None, None, None, TRUE, TRUE)
  /\ closedSeen = [x \in Sockets \X ProducerIds |-> 0]
  /\ hasLeft = {}
  /\ announced = {}
  /\ client = [s \in Sockets |-> Unmounted]
  /\ data = [users |-> <<>>, servers |-> <<>>]
  /\ uuids = 0
  /\ received = [s \in Sockets |-> <<>>]
  /\ interrupted = {}

\* ---------------------------------------------------------------- mediasoup
RouterObject(ch) == [chan |-> ch, closed |-> FALSE]
TransportObject(r, s, dir, closed) ==
  [router |-> r, sock |-> s, dir |-> dir, closed |-> closed, dtls |-> FALSE]
ProducerObject(t, closed) == [transport |-> t, closed |-> closed]
ConsumerObject(t, p, s, closed) ==
  [transport |-> t, producer |-> p, sock |-> s, closed |-> closed]

TransportsOf(st, rs) == {t \in Ids(st.transportObj) : st.transportObj[t].router \in rs}
ProducersOn(st, ts) == {p \in Ids(st.producerObj) : st.producerObj[p].transport \in ts}
ConsumersOn(st, ts) == {k \in Ids(st.consumerObj) : st.consumerObj[k].transport \in ts}
MarkClosed(objs, ids) ==
  [i \in Ids(objs) |-> IF i \in ids THEN [objs[i] EXCEPT !.closed = TRUE] ELSE objs[i]]

\* transport.close() on the transports ts, and what the orchestrator's
\* listeners do while it runs: each live producer of a closing transport
\* fires 'transportclose' (voiceManager.js:215-219: producer.close(), entry
\* deleted from this.producers), each live consumer on it fires
\* 'transportclose' (voiceManager.js:265-269: consumer.close(), entry
\* deleted from this.consumers).  Nothing is sent to any client here, and
\* this.transports is left as it is.
CloseTransports(st, ts) ==
  LET ps == {p \in ProducersOn(st, ts) : ~st.producerObj[p].closed}
      ks == {k \in ConsumersOn(st, ts) : ~st.consumerObj[k].closed}
  IN [st EXCEPT !.transportObj = MarkClosed(@, ts),
                !.producerObj = MarkClosed(@, ps),
                !.consumerObj = MarkClosed(@, ks),
                !.producers = MapDeleteAll(@, ps),
                !.consumers = @ \ ks]

\* router.close(): the router's transports are closed with it.
CloseRouter(st, r) ==
  [CloseTransports(st, TransportsOf(st, {r})) EXCEPT !.routerObj = MarkClosed(@, {r})]

\* consumer.close()
CloseConsumer(st, k) == [st EXCEPT !.consumerObj = MarkClosed(@, {k})]

\* ---------------------------------------------------------------- awaited calls
\* A call into the worker that a handler awaits, with what the handler holds
\* across the await: its socket, its arguments, the router or transport it
\* called (obj), and the session object it read before the await.  held
\* says whether that session object is still the one stored under the
\* socket id; sessChan is its channelId.  open says whether the object
\* called was open when the call was made.
Call(tag, kind, s, ch, dir, obj, prod, held, sessChan) ==
  [tag |-> tag, kind |-> kind, sock |-> s, chan |-> ch, dir |-> dir, obj |-> obj,
   prod |-> prod, held |-> held, sessChan |-> sessChan, open |-> TRUE]

\* The same call made on transport t.
OnTransport(st, t, call) == [call EXCEPT !.open = ~st.transportObj[t].closed]

FreeTag(st) ==
  LET used == {c.tag : c \in st.pending}
  IN CHOOSE n \in 1..(Cardinality(used) + 1) :
       n \notin used /\ \A m \in 1..(Cardinality(used) + 1) : m \notin used => n <= m

Await(st, call) == [st EXCEPT !.pending = @ \cup {call}]
Settled(st, call) == [st EXCEPT !.pending = @ \ {call}]

\* userSessions.set / userSessions.delete for socket s: handlers of s that are
\* suspended keep the session object they read, which is no longer the one
\* stored under s.
Detach(st, s) ==
  [st EXCEPT !.pending = {IF c.sock = s THEN [c EXCEPT !.held = FALSE] ELSE c : c \in @}]

\* ---------------------------------------------------------------- sessions
\* voiceManager.js:77-83: a fresh session object with empty resource lists.
NewSession(s, ch) ==
  [userId |-> UserOf(s), channelId |-> ch,
   transports |-> <<>>, producers |-> <<>>, consumers |-> <<>>]

\* voiceManager.js:91-93: the producers whose recorded channelId is ch.
ExistingProducers(st, ch) == {p \in DOMAIN st.producers : st.producers[p].channelId = ch}

\* voiceManager.js:76-97, once getOrCreateRouter has returned router r.
handleJoinChannel(st, s, ch, r) ==
  LET st1 == [Detach(st, s) EXCEPT !.userSessions = MapSet(@, s, NewSession(s, ch))]
      st2 == Emit(st1, <<SocketEmit(st1, s, "router-rtp-capabilities", ch, r, {}),
                         SocketEmit(st1, s, "existing-producers", ch, None,
                                    ExistingProducers(st1, ch))>>)
  IN End(st2, "join", s, ch, r, TRUE)

\* voiceManager.js:305-312: producer-closed to the room for each producer of
\* the session that is still registered, and the entry is deleted.
LeaveProducers(st, s, session) ==
  LET ps == SelectSeq(session.producers, LAMBDA p : Has(st.producers, p))
  IN [Emit(st, [i \in 1..Len(ps) |->
                  SocketToEmit(st, s, session.channelId, "producer-closed", ps[i])])
      EXCEPT !.producers = MapDeleteAll(@, SeqToSet(ps))]

\* voiceManager.js:314-321
LeaveConsumers(st, session) ==
  LET ks == SeqToSet(session.consumers) \cap st.consumers
  IN [st EXCEPT !.consumerObj = MarkClosed(@, ks), !.consumers = @ \ ks]

\* voiceManager.js:323-330
LeaveTransports(st, session) ==
  LET ts == SeqToSet(session.transports) \cap st.transports
  IN [CloseTransports(st, ts) EXCEPT !.transports = @ \ ts]

\* voiceManager.js:335-344
CleanupRouter(st, ch) ==
  LET channelHasUsers ==
        \E x \in DOMAIN st.userSessions : st.userSessions[x].channelId = ch
  IN IF ~channelHasUsers /\ Has(st.routers, ch)
     THEN [CloseRouter(st, st.routers[ch]) EXCEPT !.routers = MapDelete(@, ch)]
     ELSE st

\* A variant of handleLeave that only notifies the room of the session's
\* producers: it deletes no registry entry and keeps the session.
handleLeaveNotifyOnly(st, s) ==
  IF ~Has(st.userSessions, s) THEN st
  ELSE LET session == st.userSessions[s]
           ps == SelectSeq(session.producers, LAMBDA p : Has(st.producers, p))
       IN Emit(st, [i \in 1..Len(ps) |->
                      SocketToEmit(st, s, session.channelId, "producer-closed", ps[i])])
\* voiceManager.js:295-350.  handleLeave has no await into the worker: it
\* runs to its end within the handler that calls it.
handleLeave(st, s) ==
  IF ~Has(st.userSessions, s) THEN st
  ELSE LET session == st.userSessions[s]
           st1 == LeaveProducers(st, s, session)
           st2 == LeaveConsumers(st1, session)
           st3 == LeaveTransports(st2, session)
           st4 == [Detach(st3, s) EXCEPT !.userSessions = MapDelete(@, s)]
       IN CleanupRouter(st4, session.channelId)

\* ---------------------------------------------------------------- gateway events
\* index.js:231-236, 301-306, 350-355: one voice_channel_users_update per
\* key of voiceChannelUsers, to every client.
BroadcastVoiceChannelUsers(st) ==
  LET ks == SetToSeq(DOMAIN st.voiceChannelUsers)
  IN [i \in 1..Len(ks) |->
        IoEmit(st, "voice_channel_users_update", ks[i], st.voiceChannelUsers[ks[i]])]

\* index.js:177-183: the same snapshots, to the one socket that came online.
CatchUpVoiceChannelUsers(st, s) ==
  LET ks == SetToSeq(DOMAIN st.voiceChannelUsers)
  IN [i \in 1..Len(ks) |->
        SocketEmit(st, s, "voice_channel_users_update", ks[i], None,
                   st.voiceChannelUsers[ks[i]])]

\* A variant of OnUserOnline that broadcasts users_update before it stores
\* the user.
OnUserOnlineEmitsFirst(st0, s) ==
  LET st  == [Begin(st0, "user_online", s, None) EXCEPT !.announced = @ \cup {s}]
      st1 == [st EXCEPT !.onlineUsers = @ \cup {s}]
      st2 == Emit(st1, <<IoEmit(st, "users_update", None, st.onlineUsers)>>
                         \o CatchUpVoiceChannelUsers(st1, s))
  IN End(st2, "user_online", s, None, None, TRUE)
\* index.js:171-184
OnUserOnline(st0, s) ==
  LET st  == [Begin(st0, "user_online", s, None) EXCEPT !.announced = @ \cup {s}]
      st1 == [st EXCEPT !.onlineUsers = @ \cup {s}]
      st2 == Emit(st1, <<IoEmit(st1, "users_update", None, st1.onlineUsers)>>
                         \o CatchUpVoiceChannelUsers(st1, s))
  IN End(st2, "user_online", s, None, None, TRUE)

\* index.js:217-237: the membership index and its broadcast on join.
TrackUserInChannel(st, s, ch) ==
  LET st1 == IF Has(st.voiceChannelUsers, ch) THEN st
             ELSE [st EXCEPT !.voiceChannelUsers = MapSet(@, ch, {})]
  IN IF s \in st1.onlineUsers
     THEN LET st2 == [st1 EXCEPT !.voiceChannelUsers[ch] = @ \cup {s}]
          IN Emit(st2, BroadcastVoiceChannelUsers(st2))
     ELSE st1

\* index.js:214-241 with voiceManager.js:72-74, up to the await of
\* createRouter (voiceManager.js:47), or to the end of the handler when the
\* channel has a router.
OnJoinVoiceChannel(st0, s, ch) ==
  LET st  == [Begin(st0, "join", s, ch)
                EXCEPT !.hasLeft = @ \ {s}, !.interrupted = @ \ {s}]
      st1 == [st EXCEPT !.rooms[s] = @ \cup {ch}]
      st2 == TrackUserInChannel(st1, s, ch)
  IN IF Has(st2.routers, ch)
     THEN handleJoinChannel(st2, s, ch, st2.routers[ch])
     ELSE Await(st2, Call(FreeTag(st2), "join", s, ch, "", None, None, FALSE, None))

\* index.js:290-314: the membership index and its broadcast on leave.
UntrackUserInChannel(st, s, ch) ==
  IF ~Has(st.voiceChannelUsers, ch) THEN st
  ELSE LET left == st.voiceChannelUsers[ch] \ {s}
           st1 == IF left = {}
                  THEN [st EXCEPT !.voiceChannelUsers = MapDelete(@, ch)]
                  ELSE [st EXCEPT !.voiceChannelUsers[ch] = left]
           st2 == Emit(st1, BroadcastVoiceChannelUsers(st1))
       IN IF Has(st2.voiceChannelUsers, ch) THEN st2
          ELSE Emit(st2, <<IoEmit(st2, "voice_channel_users_update", ch, {})>>)

\* index.js:287-318
OnLeaveVoiceChannel(st0, s, ch) ==
  LET st  == Interrupt(Begin(st0, "leave", s, ch), s)
      st1 == [st EXCEPT !.rooms[s] = @ \ {ch}]
      st2 == UntrackUserInChannel(st1, s, ch)
      st3 == handleLeave(st2, s)
  IN End([st3 EXCEPT !.hasLeft = @ \cup {s}], "leave", s, ch, None, TRUE)

\* index.js:320-326
OnUserSpeaking(st0, s, ch, speaking) ==
  LET st == Begin(st0, "user_speaking", s, ch)
  IN End(Emit(st, <<IoToEmit(st, ch, "user_speaking_update", s, speaking)>>),
         "user_speaking", s, ch, None, TRUE)

\* index.js:337-347: the socket is removed from every channel that lists
\* it, and a channel it leaves empty is dropped.
RemoveFromAllChannels(st, s) ==
  LET vcu  == st.voiceChannelUsers
      gone == {c \in DOMAIN vcu : vcu[c] = {s}}
  IN [st EXCEPT !.voiceChannelUsers = [c \in DOMAIN vcu \ gone |-> vcu[c] \ {s}]]

\* index.js:328-356.  socket.io has taken the socket out of its rooms and
\* out of the connected sockets before it calls the handler.
OnDisconnect(st0, s) ==
  LET st  == [Interrupt(Begin(st0, "disconnect", s, None), s)
                EXCEPT !.connected = @ \ {s}, !.rooms[s] = {}, !.hasLeft = @ \ {s},
                       !.announced = @ \ {s}]
      st1 == [st EXCEPT !.onlineUsers = @ \ {s}]
      st2 == Emit(st1, <<IoEmit(st1, "users_update", None, st1.onlineUsers)>>)
      st3 == handleLeave(st2, s)
      st4 == RemoveFromAllChannels(st3, s)
      st5 == Emit(st4, BroadcastVoiceChannelUsers(st4))
  IN End(st5, "disconnect", s, None, None, TRUE)

\* ---------------------------------------------------------------- the store
\* index.js:42-52: readData parses data.json (or yields the empty document
\* when the file cannot be read) and writeData replaces the file; both are
\* synchronous, so a handler that reads, changes and writes is one step.
\* uuidv4(): an id no earlier call returned.
Uuid(st, n) == st.uuids + n
\* Array.prototype.find by id: the index of the first element with that id,
\* 0 when there is none.
FindById(seq, id) ==
  IF \E i \in 1..Len(seq) : seq[i].id = id
  THEN CHOOSE i \in 1..Len(seq) :
         seq[i].id = id /\ \A j \in 1..(i - 1) : seq[j].id # id
  ELSE 0
FindByUsername(users, username) ==
  IF \E i \in 1..Len(users) : users[i].username = username
  THEN CHOOSE i \in 1..Len(users) :
         users[i].username = username /\ \A j \in 1..(i - 1) : users[j].username # username
  ELSE 0

\* A variant of OnLogin that stores a new user on every login.
OnLoginAlwaysCreates(st0, username) ==
  LET st == Begin(st0, "login", None, None)
  IN IF username = "" THEN End(st, "login", None, None, None, FALSE)
     ELSE LET user == [id |-> Uuid(st, 1), username |-> username]
              st1  == [st EXCEPT !.uuids = @ + 1, !.data.users = Append(@, user)]
          IN End(st1, "login", None, None, user.id, TRUE)
\* index.js:55-76  POST /api/auth/login; the step records the id of the
\* user in the response.
OnLogin(st0, username) ==
  LET st == Begin(st0, "login", None, None)
      i  == FindByUsername(st.data.users, username)
  IN IF username = "" THEN End(st, "login", None, None, None, FALSE)
     ELSE IF i # 0 THEN End(st, "login", None, None, st.data.users[i].id, TRUE)
     ELSE LET user == [id |-> Uuid(st, 1), username |-> username]
              st1  == [st EXCEPT !.uuids = @ + 1, !.data.users = Append(@, user)]
          IN End(st1, "login", None, None, user.id, TRUE)

\* index.js:83-106  POST /api/servers: a server with one channel.
OnCreateServer(st0) ==
  LET st == Begin(st0, "create-server", None, None)
      channel == [id |-> Uuid(st, 2), messages |-> <<>>]
      server  == [id |-> Uuid(st, 1), channels |-> <<channel>>]
      st1 == [st EXCEPT !.uuids = @ + 2, !.data.servers = Append(@, server)]
  IN End(Emit(st1, <<IoEmit(st1, "server_created", None, {})>>),
         "create-server", None, None, server.id, TRUE)

\* index.js:108-138  POST /api/servers/:serverId/channels
OnCreateChannel(st0, serverId) ==
  LET st == Begin(st0, "create-channel", None, None)
      i  == FindById(st.data.servers, serverId)
  IN IF i = 0 THEN End(st, "create-channel", None, None, None, FALSE)
     ELSE LET channel == [id |-> Uuid(st, 1), messages |-> <<>>]
              st1 == [st EXCEPT !.uuids = @ + 1,
                                !.data.servers[i].channels = Append(@, channel)]
          IN End(Emit(st1, <<IoEmit(st1, "channel_created", channel.id, {})>>),
                 "create-channel", None, channel.id, channel.id, TRUE)

\* A variant of Deliver that sends to every connected socket but the sender.
DeliverToOthers(st, channelId, message) ==
  [Emit(st, <<[IoEmit(st, "new_message", channelId, {})
                 EXCEPT !.id = message.id, !.to = @ \ {st.last.sock}]>>)
   EXCEPT !.received = [x \in Sockets |->
                          IF x \in st.connected \ {st.last.sock}
                          THEN Append(@[x], [chan |-> channelId, message |-> message])
                          ELSE @[x]]]
\* io.emit('new_message', ...) reaches every connected socket, each over its
\* one ordered connection.
Deliver(st, channelId, message) ==
  [Emit(st, <<[IoEmit(st, "new_message", channelId, {}) EXCEPT !.id = message.id]>>)
   EXCEPT !.received = [x \in Sockets |->
                          IF x \in st.connected
                          THEN Append(@[x], [chan |-> channelId, message |-> message])
                          ELSE @[x]]]

\* A variant of OnSendMessage that creates the channel it does not find.
OnSendMessageAnyChannel(st0, s, serverId, channelId, content) ==
  LET st == Begin(st0, "send_message", s, None)
      i  == FindById(st.data.servers, serverId)
  IN IF i = 0 THEN End(st, "send_message", s, None, None, FALSE)
     ELSE LET j == FindById(st.data.servers[i].channels, channelId)
              newMessage == [id |-> Uuid(st, 1), content |-> content, user |-> UserOf(s)]
              st1 == IF j = 0
                     THEN [st EXCEPT !.uuids = @ + 1,
                                     !.data.servers[i].channels =
                                        Append(@, [id |-> channelId,
                                                   messages |-> <<newMessage>>])]
                     ELSE [st EXCEPT !.uuids = @ + 1,
                                     !.data.servers[i].channels[j].messages =
                                        Append(@, newMessage)]
          IN End(Deliver(st1, channelId, newMessage),
                 "send_message", s, channelId, newMessage.id, TRUE)
\* index.js:186-211  send_message
OnSendMessage(st0, s, serverId, channelId, content) ==
  LET st == Begin(st0, "send_message", s, None)
      i  == FindById(st.data.servers, serverId)
  IN IF i = 0 THEN End(st, "send_message", s, None, None, FALSE)
     ELSE LET j == FindById(st.data.servers[i].channels, channelId)
          IN IF j = 0 THEN End(st, "send_message", s, None, None, FALSE)
             ELSE LET newMessage == [id |-> Uuid(st, 1), content |-> content,
                                     user |-> UserOf(s)]
                      st1 == [st EXCEPT !.uuids = @ + 1,
                                        !.data.servers[i].channels[j].messages =
                                           Append(@, newMessage)]
                  IN End(Deliver(st1, channelId, newMessage),
                         "send_message", s, channelId, newMessage.id, TRUE)

\* ---------------------------------------------------------------- request-reply events
\* The end of a request-reply handler (index.js:247/250, 258/261, 269/272,
\* 280/283): callback({success: true, ...}) at the end of the try block,
\* callback({success: false, error}) in the catch block.
\* A variant of Reply in which the catch block does not call the callback:
\* a failed request is left unanswered.
ReplyOnSuccessOnly(st, op, s, ch, id, ok) ==
  IF ok THEN End(Emit(st, <<Ack(st, s, ok)>>), op, s, ch, id, ok)
  ELSE End(st, op, s, ch, id, ok)
Reply(st, op, s, ch, id, ok) == End(Emit(st, <<Ack(st, s, ok)>>), op, s, ch, id, ok)

\* index.js:244-252 with voiceManager.js:108-131, up to the first await into
\* the worker: createRouter when the channel has no router (line 47),
\* createWebRtcTransport otherwise (line 121).
createTransport(st, s, ch, dir) ==
  IF ~Has(st.userSessions, s)
  THEN Reply(Thrown(st, "No session found"), "create-transport", s, ch, None, FALSE)
  ELSE Await(st, Call(FreeTag(st), "createWebRtcTransport", s, ch, dir,
                      st.routers[ch], None, TRUE, st.userSessions[s].channelId))

OnCreateTransport(st0, s, ch, dir) ==
  LET st == Begin(st0, "create-transport", s, ch)
  IN IF Has(st.routers, ch)
     THEN createTransport(st, s, ch, dir)
     ELSE Await(st, Call(FreeTag(st), "createRouter", s, ch, dir, None, None, FALSE, None))

\* index.js:255-263 with voiceManager.js:164-172
OnConnectTransport(st0, s, t) ==
  LET st == Begin(st0, "connect-transport", s, None)
  IN IF t \notin st.transports
     THEN Reply(Thrown(st, "Transport not found"), "connect-transport", s, None, None, FALSE)
     ELSE Await(st, Call(FreeTag(st), "connect", s, None, "", t, None, FALSE, None))

\* index.js:266-274 with voiceManager.js:183-197
OnProduce(st0, s, t) ==
  LET st == Begin(st0, "produce", s, None)
  IN IF t \notin st.transports \/ ~Has(st.userSessions, s)
     THEN Reply(Thrown(st, IF t \notin st.transports THEN "Transport not found"
                           ELSE "Session not found"),
                "produce", s, None, None, FALSE)
     ELSE Await(st, OnTransport(st, t,
                      Call(FreeTag(st), "produce", s, None, "", t, None, TRUE,
                           st.userSessions[s].channelId)))

\* router.canConsume (voiceManager.js:250): the producer must be a live
\* producer of that router and the client's capabilities must fit its codec.
CanConsume(st, r, p, compat) ==
  /\ compat
  /\ p \in Ids(st.producerObj)
  /\ ~st.producerObj[p].closed
  /\ st.transportObj[st.producerObj[p].transport].router = r

\* A variant of ConsumeAllowed that does not ask the router whether the
\* client can consume the producer.
ConsumeAllowedAnyCodec(st, s, p, t, compat) ==
  /\ Has(st.producers, p)
  /\ Has(st.routers, st.producers[p].channelId)
  /\ t \in st.transports
  /\ Has(st.userSessions, s)
\* voiceManager.js:235-252: the checks of consume before its await.
ConsumeAllowed(st, s, p, t, compat) ==
  /\ Has(st.producers, p)
  /\ Has(st.routers, st.producers[p].channelId)
  /\ t \in st.transports
  /\ Has(st.userSessions, s)
  /\ CanConsume(st, st.routers[st.producers[p].channelId], p, compat)

\* voiceManager.js:237-252: the error consume throws when a check fails.
ConsumeError(st, s, p, t) ==
  IF ~Has(st.producers, p) THEN "Producer not found"
  ELSE IF \/ ~Has(st.routers, st.producers[p].channelId)
          \/ t \notin st.transports
          \/ ~Has(st.userSessions, s)
       THEN "Router, transport, or session not found"
       ELSE "Cannot consume - incompatible codecs"

\* index.js:277-285 with voiceManager.js:233-259
OnConsume(st0, s, p, t, compat) ==
  LET st == Begin(st0, "consume", s, None)
  IN IF ~ConsumeAllowed(st, s, p, t, compat)
     THEN Reply(Thrown(st, ConsumeError(st, s, p, t)), "consume", s, None, None, FALSE)
     ELSE Await(st, OnTransport(st, t,
                      Call(FreeTag(st), "consume", s, None, "", t, p, TRUE,
                           st.userSessions[s].channelId)))

\* ---------------------------------------------------------------- the worker answers
\* getOrCreateRouter after its await (voiceManager.js:62-66): the new router
\* is stored under the channel id, whatever is stored there by now.
getOrCreateRouter(st, ch) ==
  [st EXCEPT !.routerObj = Append(@, RouterObject(ch)),
             !.routers = MapSet(@, ch, Len(st.routerObj) + 1)]

\* join_voice_channel resumes when createRouter settles (voiceManager.js:74-101).
AfterJoinCreateRouter(st0, call, ok) ==
  LET st == Settled(st0, call)
  IN IF ok
     THEN LET st1 == getOrCreateRouter(st, call.chan)
          IN handleJoinChannel(st1, call.sock, call.chan, st1.routers[call.chan])
     ELSE End(Emit(st, <<SocketEmit(st, call.sock, "error", call.chan, None, {})>>),
              "join", call.sock, call.chan, None, FALSE)

\* create-transport resumes when createRouter settles (voiceManager.js:110-121).
AfterCreateRouter(st0, call, ok) ==
  LET st == Settled(st0, call)
  IN IF ok
     THEN createTransport(getOrCreateRouter(st, call.chan), call.sock, call.chan, call.dir)
     ELSE Reply(Thrown(st, WorkerError), "create-transport", call.sock, call.chan, None, FALSE)

\* A variant of Push that records the id in every session.
PushOnAll(st, call, list, id) ==
  [st EXCEPT !.userSessions =
     [x \in DOMAIN @ |-> [@[x] EXCEPT ![list] = Append(@, id)]]]
\* session.<list>.push(id) on the session object the handler read before its
\* await (voiceManager.js:134, 206, 262): seen in userSessions only if that
\* object is still the one stored under the socket id.
Push(st, call, list, id) ==
  IF call.held
  THEN [st EXCEPT !.userSessions[call.sock][list] = Append(@, id)]
  ELSE st

\* create-transport resumes when createWebRtcTransport settles
\* (voiceManager.js:133-154, index.js:247/250).  A transport that the worker
\* hands back after its router was closed is dead.
AfterCreateWebRtcTransport(st0, call, ok) ==
  LET st == Settled(st0, call)
      t  == Len(st.transportObj) + 1
  IN IF ok
     THEN LET st1 == [st EXCEPT !.transportObj =
                         Append(@, TransportObject(call.obj, call.sock, call.dir,
                                                   st.routerObj[call.obj].closed)),
                                !.transports = @ \cup {t}]
          IN Reply(Push(st1, call, "transports", t),
                   "create-transport", call.sock, call.chan, t, TRUE)
     ELSE Reply(Thrown(st, WorkerError), "create-transport", call.sock, call.chan, None, FALSE)

\* connect-transport resumes when transport.connect settles
\* (voiceManager.js:172-177, index.js:258/261).
AfterConnect(st0, call, ok) ==
  LET st == Settled(st0, call)
  IN IF ok
     THEN Reply([st EXCEPT !.transportObj[call.obj].dtls = TRUE],
                "connect-transport", call.sock, None, call.obj, TRUE)
     ELSE Reply(Thrown(st, WorkerError), "connect-transport", call.sock, None, None, FALSE)

\* voiceManager.js:200-204
ProducerInfo(call) ==
  [userId |-> UserOf(call.sock), channelId |-> call.sessChan, kind |-> "audio"]

\* socket.to(session.channelId).emit('new-producer') (voiceManager.js:209-212)
NotifyNewProducer(st, call, p) ==
  <<SocketToEmit(st, call.sock, call.sessChan, "new-producer", p)>>

\* produce resumes when transport.produce settles
\* (voiceManager.js:199-223, index.js:269/272).
AfterProduce(st0, call, ok) ==
  LET st == Settled(st0, call)
      p  == Len(st.producerObj) + 1
  IN IF ok
     THEN LET st1 == [st EXCEPT !.producerObj =
                         Append(@, ProducerObject(call.obj,
                                                  st.transportObj[call.obj].closed)),
                                !.producers = MapSet(@, p, ProducerInfo(call))]
              st2 == Push(st1, call, "producers", p)
          IN Reply(Emit(st2, NotifyNewProducer(st2, call, p)),
                   "produce", call.sock, call.sessChan, p, TRUE)
     ELSE Reply(Thrown(st, WorkerError), "produce", call.sock, call.sessChan, None, FALSE)

\* consume resumes when transport.consume settles
\* (voiceManager.js:261-285, index.js:280/283).
AfterConsume(st0, call, ok) ==
  LET st == Settled(st0, call)
      k  == Len(st.consumerObj) + 1
  IN IF ok
     THEN LET st1 == [st EXCEPT !.consumerObj =
                         Append(@, ConsumerObject(call.obj, call.prod, call.sock,
                                                  st.transportObj[call.obj].closed)),
                                !.consumers = @ \cup {k}]
          IN Reply(Push(st1, call, "consumers", k),
                   "consume", call.sock, call.sessChan, k, TRUE)
     ELSE Reply(Thrown(st, WorkerError), "consume", call.sock, call.sessChan, None, FALSE)

\* The event whose handler awaits call.
HandlerOf(call) ==
  CASE call.kind = "join"                  -> "join"
    [] call.kind = "createRouter"          -> "create-transport"
    [] call.kind = "createWebRtcTransport" -> "create-transport"
    [] call.kind = "connect"               -> "connect-transport"
    [] call.kind = "produce"               -> "produce"
    [] call.kind = "consume"               -> "consume"

\* The handler that awaits call resumes with the worker's answer.
Resume(st, call, ok) ==
  CASE call.kind = "join"                  -> AfterJoinCreateRouter(st, call, ok)
    [] call.kind = "createRouter"          -> AfterCreateRouter(st, call, ok)
    [] call.kind = "createWebRtcTransport" -> AfterCreateWebRtcTransport(st, call, ok)
    [] call.kind = "connect"               -> AfterConnect(st, call, ok)
    [] call.kind = "produce"               -> AfterProduce(st, call, ok)
    [] call.kind = "consume"               -> AfterConsume(st, call, ok)

\* What the worker can answer: any call may fail; the worker refuses to
\* connect a transport that is closed or already connected, refuses a call
\* made on a closed transport, and creates a consumer only for a live
\* producer of the router the transport is on.
Answers(st, call) ==
  CASE call.kind = "connect" ->
         IF st.transportObj[call.obj].closed \/ st.transportObj[call.obj].dtls
         THEN {FALSE} ELSE BOOLEAN
    [] call.kind = "produce" -> IF call.open THEN BOOLEAN ELSE {FALSE}
    [] call.kind = "consume" ->
         IF /\ call.open
            /\ ~st.producerObj[call.prod].closed
            /\ st.transportObj[st.producerObj[call.prod].transport].router
                 = st.transportObj[call.obj].router
         THEN BOOLEAN ELSE {FALSE}
    [] OTHER -> BOOLEAN

\* ---------------------------------------------------------------- events of the worker
\* consumer 'producerclose' (voiceManager.js:271-276): the worker tells a
\* live consumer that its producer is gone.
ProducerCloseDue(st, k) ==
  /\ k \in Ids(st.consumerObj)
  /\ ~st.consumerObj[k].closed
  /\ st.producerObj[st.consumerObj[k].producer].closed

\* A variant of OnProducerClose that tells the client and leaves the consumer
\* open and registered.
OnProducerCloseNotifyOnly(st0, k) ==
  LET c   == st0.consumerObj[k]
      st  == Begin(st0, "producerclose", c.sock, None)
      st1 == Emit(st, <<SocketEmit(st, c.sock, "producer-closed", None, c.producer, {})>>)
  IN End(st1, "producerclose", c.sock, None, c.producer, TRUE)
\* consumer 'producerclose' (voiceManager.js:271-276).
OnProducerClose(st0, k) ==
  LET c   == st0.consumerObj[k]
      st  == Begin(st0, "producerclose", c.sock, None)
      st1 == Emit(st, <<SocketEmit(st, c.sock, "producer-closed", None, c.producer, {})>>)
      st2 == [CloseConsumer(st1, k) EXCEPT !.consumers = @ \ {k}]
  IN End(st2, "producerclose", c.sock, None, c.producer, TRUE)

\* transport 'dtlsstatechange' with state closed (voiceManager.js:137-141).
OnDtlsStateClosed(st0, t) ==
  LET st == Begin(st0, "dtlsstatechange", st0.transportObj[t].sock, None)
  IN End(CloseTransports(st, {t}), "dtlsstatechange", st.transportObj[t].sock, None, t, TRUE)

\* ---------------------------------------------------------------- the web client
\* The voice channel the component is shown for (VoiceChannel.jsx:5).
ClientChannel == 1
\* The events the component listens to (VoiceChannel.jsx:88-91).
ClientEvents ==
  {"router-rtp-capabilities", "existing-producers", "new-producer", "producer-closed"}

\* The messages of a server step arrive, in order, at the mounted components
\* they are addressed to; a socket without listeners drops them.
RECURSIVE Arrive(_, _)
Arrive(cl, msgs) ==
  IF msgs = <<>> THEN cl
  ELSE LET m == Head(msgs)
       IN Arrive([x \in Sockets |->
                    IF x \in m.to /\ m.ev \in ClientEvents /\ cl[x].mounted
                    THEN [cl[x] EXCEPT !.inbox =
                            Append(@, [ev |-> m.ev, id |-> m.id, set |-> m.set])]
                    ELSE cl[x]],
                 Tail(msgs))
Arrived(st) == [st EXCEPT !.client = Arrive(@, st.emitted)]

\* The server handles a request and the worker answers each call the handler
\* awaits, with success whenever it can.
RECURSIVE Served(_)
Served(st0) ==
  CHOOSE end \in
    {IF st.pending = {} THEN st
     ELSE LET c == CHOOSE c \in st.pending : TRUE
          IN Served(Resume(st, c, TRUE \in Answers(st, c))) : st \in {st0}} : TRUE

\* A coroutine of the component that awaits: kind says what for, prod and
\* rest are the producer consumeAudio was called for and the producers the
\* loop of handleExistingProducers has still to visit, t is the transport
\* the request names.
Task(kind, prod, rest, t) == [kind |-> kind, prod |-> prod, rest |-> rest, t |-> t]
Suspend(st, s, task) == [st EXCEPT !.client[s].tasks = @ \cup {task}]
Finish(st, s, task) == [st EXCEPT !.client[s].tasks = @ \ {task}]

\* VoiceChannel.jsx:281-340 consumeAudio up to its first await.  The recv
\* transport is requested when recvTransportRef is still empty (282-286);
\* otherwise consume is emitted (288-293), which reads
\* deviceRef.current.rtpCapabilities: without a device the promise consumeAudio
\* returns is rejected and the loop that awaits it ends.
consumeAudio(st, s, p, rest) ==
  IF st.client[s].recv = None
  THEN Suspend([st EXCEPT !.client[s].recvRequests = @ + 1], s,
               Task("create-recv", p, rest, None))
  ELSE IF st.client[s].device
       THEN Suspend(st, s, Task("consume", p, rest, st.client[s].recv))
       ELSE st
\* VoiceChannel.jsx:59-64: the loop of handleExistingProducers goes on to the
\* next producer.
NextExisting(st, s, rest) ==
  IF rest = <<>> THEN st ELSE consumeAudio(st, s, Head(rest), Tail(rest))

\* VoiceChannel.jsx:36-91: the component handles the event at the head of its
\* inbox, up to the first await.
OnClientEvent(st0, s) ==
  LET event == Head(st0.client[s].inbox)
      st == [st0 EXCEPT !.client[s].inbox = Tail(@)]
  IN CASE event.ev = "router-rtp-capabilities" ->
            Suspend(st, s, Task("load", None, <<>>, None))
       [] event.ev = "existing-producers" ->
            NextExisting(st, s, SetToSeq(event.set))
       [] event.ev = "new-producer" ->
            consumeAudio(st, s, event.id, <<>>)
       [] event.ev = "producer-closed" ->
            [st EXCEPT !.client[s].consumers = @ \ {event.id}]

\* VoiceChannel.jsx:41-46: device.load resolves, the device is stored and
\* createSendTransport emits create-transport{send} (149-154).
OnDeviceLoaded(st, s, task) ==
  Suspend(Finish([st EXCEPT !.client[s].device = TRUE], s, task), s,
          Task("create-send", None, <<>>, None))

\* The request a coroutine awaits the reply to, as the server handles it
\* (VoiceChannel.jsx:151-154, 168-171, 181-185, 240-243, 289-293).
Request(st, s, task) ==
  CASE task.kind = "create-send" -> OnCreateTransport(st, s, ClientChannel, "send")
    [] task.kind = "create-recv" -> OnCreateTransport(st, s, ClientChannel, "recv")
    [] task.kind \in {"connect-send", "connect-recv"} -> OnConnectTransport(st, s, task.t)
    [] task.kind = "produce" -> OnProduce(st, s, task.t)
    [] task.kind = "consume" -> OnConsume(st, s, task.prod, task.t, TRUE)

\* The coroutine resumes with the reply; rs is the state the server has
\* reached and cl the refs of the component (VoiceChannel.jsx:154-201,
\* 206-214, 242-278, 293-335).
Resumes(rs, cl, s, task) ==
  CASE task.kind = "create-send" ->
            IF rs.last.ok
            THEN Suspend([rs EXCEPT !.client[s].send = rs.last.id], s,
                         Task("connect-send", None, <<>>, rs.last.id))
            ELSE rs
       [] task.kind = "connect-send" ->
            IF rs.last.ok THEN Suspend(rs, s, Task("produce", None, <<>>, task.t))
            ELSE rs
       [] task.kind = "produce" ->
            IF rs.last.ok THEN [rs EXCEPT !.client[s].producer = rs.last.id] ELSE rs
       [] task.kind = "create-recv" ->
            IF rs.last.ok /\ cl.device
            THEN Suspend([rs EXCEPT !.client[s].recv = rs.last.id,
                                    !.client[s].recvConnected = FALSE], s,
                         Task("consume", task.prod, task.rest, rs.last.id))
            ELSE NextExisting(rs, s, task.rest)
       [] task.kind = "consume" ->
            IF ~rs.last.ok \/ cl.recv = None THEN rs
            ELSE IF cl.recvConnected
            THEN NextExisting([rs EXCEPT !.client[s].consumers = @ \cup {task.prod}],
                              s, task.rest)
            ELSE Suspend(rs, s, Task("connect-recv", task.prod, task.rest, cl.recv))
       [] task.kind = "connect-recv" ->
            IF rs.last.ok
            THEN NextExisting([rs EXCEPT !.client[s].consumers = @ \cup {task.prod},
                                         !.client[s].recvConnected = TRUE],
                              s, task.rest)
            ELSE rs

\* The server handles the request of a coroutine and the coroutine resumes
\* with the reply.
OnReply(st0, s, task) ==
  CHOOSE end \in
    {Resumes(rs, st0.client[s], s, task) :
       rs \in {Arrived(Served(Request(Finish(st0, s, task), s, task)))}} : TRUE

\* VoiceChannel.jsx:25-33, 119-147: the component mounts and emits
\* join_voice_channel; the server handles it.
OnClientJoin(st, s) ==
  LET st1 == [st EXCEPT !.client[s] =
                [Unmounted EXCEPT !.mounted = TRUE, !.joins = st.client[s].joins + 1]]
  IN Arrived(Served(OnJoinVoiceChannel(st1, s, ClientChannel)))

\* VoiceChannel.jsx:411-463 leaveVoiceChannel: the refs are reset and
\* leave_voice_channel is emitted; the server handles it.
OnClientLeave(st, s) ==
  LET st1 == [st EXCEPT !.client[s] = [Unmounted EXCEPT !.joins = st.client[s].joins]]
  IN Arrived(OnLeaveVoiceChannel(st1, s, ClientChannel))

\* ---------------------------------------------------------------- bounds on the worker's objects
Awaiting(kinds) == Cardinality({c \in pending : c.kind \in kinds})
RoomForRouter ==
  Len(routerObj) + Awaiting({"join", "createRouter"}) < MaxRouters
RoomForTransport ==
  Len(transportObj) + Awaiting({"createRouter", "createWebRtcTransport"}) < MaxTransports
RoomForProducer == Len(producerObj) + Awaiting({"produce"}) < MaxProducers
RoomForConsumer == Len(consumerObj) + Awaiting({"consume"}) < MaxConsumers

\* A client event is handled while its socket is connected and the worker
\* call it leads to, if any, stays within the bounds.
JoinEnabled(s, ch) == s \in connected /\ (Has(routers, ch) \/ RoomForRouter)
CreateTransportEnabled(s, ch) ==
  /\ s \in connected
  /\ Has(routers, ch) \/ RoomForRouter
  /\ (Has(routers, ch) => Has(userSessions, s)) => RoomForTransport
ProduceEnabled(s, t) ==
  s \in connected /\ ((t \in transports /\ Has(userSessions, s)) => RoomForProducer)
ConsumeEnabled(s, p, t, compat) ==
  s \in connected /\ (ConsumeAllowed(State, s, p, t, compat) => RoomForConsumer)

\* ---------------------------------------------------------------- actions
\* The handler runs to its end: each call it awaits is answered at once.
RECURSIVE Complete(_)
Complete(st) ==
  IF st.pending = {} THEN {st}
  ELSE UNION {UNION {Complete(Resume(st, c, ok)) : ok \in Answers(st, c)} : c \in st.pending}

Handled(st) == \E end \in Complete(st) : Apply(end)

\* The handler runs up to its first await.
Started(st) == Cardinality(pending) < MaxPending /\ Apply(st)

UserOnline(s) == s \in connected /\ Apply(OnUserOnline(State, s))
LeaveVoiceChannel(s, ch) == s \in connected /\ Apply(OnLeaveVoiceChannel(State, s, ch))
UserSpeaking(s, ch, sp) == s \in connected /\ Apply(OnUserSpeaking(State, s, ch, sp))
Disconnect(s) == s \in connected /\ Apply(OnDisconnect(State, s))
ProducerClose(k) == ProducerCloseDue(State, k) /\ Apply(OnProducerClose(State, k))
DtlsStateClosed(t) ==
  /\ t \in Ids(transportObj)
  /\ transportObj[t].dtls /\ ~transportObj[t].closed
  /\ Apply(OnDtlsStateClosed(State, t))

JoinVoiceChannel(s, ch) == JoinEnabled(s, ch) /\ Handled(OnJoinVoiceChannel(State, s, ch))
CreateTransport(s, ch, dir) ==
  CreateTransportEnabled(s, ch) /\ Handled(OnCreateTransport(State, s, ch, dir))
ConnectTransport(s, t) == s \in connected /\ Handled(OnConnectTransport(State, s, t))
Produce(s, t) == ProduceEnabled(s, t) /\ Handled(OnProduce(State, s, t))
Consume(s, p, t, compat) ==
  ConsumeEnabled(s, p, t, compat) /\ Handled(OnConsume(State, s, p, t, compat))

JoinVoiceChannelStarts(s, ch) ==
  JoinEnabled(s, ch) /\ Started(OnJoinVoiceChannel(State, s, ch))
CreateTransportStarts(s, ch, dir) ==
  CreateTransportEnabled(s, ch) /\ Started(OnCreateTransport(State, s, ch, dir))
ConnectTransportStarts(s, t) == s \in connected /\ Started(OnConnectTransport(State, s, t))
ProduceStarts(s, t) == ProduceEnabled(s, t) /\ Started(OnProduce(State, s, t))
ConsumeStarts(s, p, t, compat) ==
  ConsumeEnabled(s, p, t, compat) /\ Started(OnConsume(State, s, p, t, compat))

\* The worker answers a pending call and the handler that awaits it resumes.
CallSettles(call, ok) ==
  /\ call \in pending
  /\ ok \in Answers(State, call)
  /\ Apply(Resume(Resumed(State, HandlerOf(call), call.sock, call.chan), call, ok))

\* ---------------------------------------------------------------- specifications
\* The channel clients join in the specifications of the signaling protocol;
\* a leave_voice_channel may name any channel.  The direction of a transport
\* is only logged by the server (voiceManager.js:147).
Joined == {1}
OneDirection == {"send"}

\* Spec: presence, membership and rooms over all channels.  Every handler
\* runs to completion before the next event is handled.
Next ==
  \/ \E s \in Sockets : UserOnline(s)
  \/ \E s \in Sockets, ch \in Channels : JoinVoiceChannel(s, ch)
  \/ \E s \in Sockets, ch \in Channels : LeaveVoiceChannel(s, ch)
  \/ \E s \in Sockets, ch \in Channels, sp \in BOOLEAN : UserSpeaking(s, ch, sp)
  \/ \E s \in Sockets : Disconnect(s)

Spec == Init /\ [][Next]_vars

\* SpecMedia: the signaling of one voice channel, handlers run to completion.
NextMedia ==
  \/ \E s \in Sockets, ch \in Joined : JoinVoiceChannel(s, ch)
  \/ \E s \in Sockets, ch \in Channels : LeaveVoiceChannel(s, ch)
  \/ \E s \in Sockets : Disconnect(s)
  \/ \E s \in Sockets, ch \in Joined, dir \in OneDirection : CreateTransport(s, ch, dir)
  \/ \E s \in Sockets, t \in TransportIds : Produce(s, t)
  \/ \E s \in Sockets, p \in ProducerIds, t \in TransportIds, compat \in BOOLEAN :
       Consume(s, p, t, compat)
  \/ \E k \in 1..MaxConsumers : ProducerClose(k)

SpecMedia == Init /\ [][NextMedia]_vars

\* SpecRequests: the four request-reply events and the transports' DTLS
\* state, handlers run to completion.
NextRequests ==
  \/ \E s \in Sockets, ch \in Joined : JoinVoiceChannel(s, ch)
  \/ \E s \in Sockets : Disconnect(s)
  \/ \E s \in Sockets, ch \in Joined, dir \in OneDirection : CreateTransport(s, ch, dir)
  \/ \E s \in Sockets, t \in TransportIds : ConnectTransport(s, t)
  \/ \E s \in Sockets, t \in TransportIds : Produce(s, t)
  \/ \E s \in Sockets, p \in ProducerIds, t \in TransportIds, compat \in BOOLEAN :
       Consume(s, p, t, compat)
  \/ \E t \in TransportIds : DtlsStateClosed(t)

SpecRequests == Init /\ [][NextRequests]_vars

\* SpecAsync: join, leave and disconnect are handled while earlier handlers
\* still await the worker.
NextAsync ==
  \/ \E s \in Sockets, ch \in Joined : JoinVoiceChannelStarts(s, ch)
  \/ \E s \in Sockets, ch \in Joined : LeaveVoiceChannel(s, ch)
  \/ \E s \in Sockets : Disconnect(s)
  \/ \E s \in Sockets, ch \in Joined, dir \in OneDirection : CreateTransportStarts(s, ch, dir)
  \/ \E call \in pending, ok \in BOOLEAN : CallSettles(call, ok)

SpecAsync == Init /\ [][NextAsync]_vars

\* SpecOrder: joins, create-transport and produce interleaved at their
\* awaits, with no leave and no disconnect.
NextOrder ==
  \/ \E s \in Sockets, ch \in Joined : JoinVoiceChannelStarts(s, ch)
  \/ \E s \in Sockets, ch \in Joined, dir \in OneDirection : CreateTransportStarts(s, ch, dir)
  \/ \E s \in Sockets, t \in TransportIds : ProduceStarts(s, t)
  \/ \E call \in pending, ok \in BOOLEAN : CallSettles(call, ok)

SpecOrder == Init /\ [][NextOrder]_vars

\* SpecRooms: two voice channels; joins and the requests that create
\* transports, producers and consumers, handlers run to completion.
NextRooms ==
  \/ \E s \in Sockets, ch \in Channels : JoinVoiceChannel(s, ch)
  \/ \E s \in Sockets, ch \in Channels, dir \in OneDirection : CreateTransport(s, ch, dir)
  \/ \E s \in Sockets, t \in TransportIds : Produce(s, t)
  \/ \E s \in Sockets, p \in ProducerIds, t \in TransportIds, compat \in BOOLEAN :
       Consume(s, p, t, compat)

SpecRooms == Init /\ [][NextRooms]_vars

\* SpecDirections: one voice channel, send and recv transports; handlers run
\* to completion.
NextDirections ==
  \/ \E s \in Sockets, ch \in Joined : JoinVoiceChannel(s, ch)
  \/ \E s \in Sockets, ch \in Joined, dir \in Directions : CreateTransport(s, ch, dir)
  \/ \E s \in Sockets, t \in TransportIds : Produce(s, t)
  \/ \E s \in Sockets, p \in ProducerIds, t \in TransportIds, compat \in BOOLEAN :
       Consume(s, p, t, compat)

SpecDirections == Init /\ [][NextDirections]_vars

\* SpecStalled: the worker answers every call but createWebRtcTransport, which
\* it leaves unanswered; the calls it does answer are answered in the end.
Answered(call, ok) == call.kind # "createWebRtcTransport" /\ CallSettles(call, ok)
NextStalled ==
  \/ \E s \in Sockets, ch \in Joined : JoinVoiceChannelStarts(s, ch)
  \/ \E s \in Sockets, ch \in Joined : LeaveVoiceChannel(s, ch)
  \/ \E s \in Sockets : Disconnect(s)
  \/ \E s \in Sockets, ch \in Joined, dir \in OneDirection : CreateTransportStarts(s, ch, dir)
  \/ \E call \in pending, ok \in BOOLEAN : Answered(call, ok)

SpecStalled ==
  /\ Init /\ [][NextStalled]_vars
  /\ WF_vars(\E call \in pending, ok \in BOOLEAN : Answered(call, ok))

\* SpecStore: logins, servers, text channels and messages; handlers are
\* synchronous.
RECURSIVE MessageCount(_)
MessageCount(channels) ==
  IF channels = <<>> THEN 0
  ELSE Len(Head(channels).messages) + MessageCount(Tail(channels))
RECURSIVE ChannelCount(_)
ChannelCount(servers) ==
  IF servers = <<>> THEN 0 ELSE Len(Head(servers).channels) + ChannelCount(Tail(servers))
RECURSIVE AllChannels(_)
AllChannels(servers) ==
  IF servers = <<>> THEN <<>> ELSE Head(servers).channels \o AllChannels(Tail(servers))
Nameable == {id \in StoreIds : id <= uuids + 1}
Login(username) == Apply(OnLogin(State, username))
CreateServer == Len(data.servers) < MaxServers /\ Apply(OnCreateServer(State))
CreateChannel(serverId) ==
  /\ ChannelCount(data.servers) < MaxTextChannels
  /\ Apply(OnCreateChannel(State, serverId))
SendMessage(s, serverId, channelId, content) ==
  /\ s \in connected
  /\ MessageCount(AllChannels(data.servers)) < MaxMessages
  /\ Apply(OnSendMessage(State, s, serverId, channelId, content))
NextStore ==
  \/ \E username \in Usernames \cup {""} : Login(username)
  \/ CreateServer
  \/ \E serverId \in Nameable : CreateChannel(serverId)
  \/ \E s \in Sockets, serverId \in Nameable, channelId \in Nameable, content \in Contents :
       SendMessage(s, serverId, channelId, content)
  \/ \E s \in Sockets : Disconnect(s)

SpecStore == Init /\ [][NextStore]_vars

\* The connection that speaks, and in some specifications is the one that
\* leaves or drops, and the connection that listens.
Speakers == {1}
Listeners == {2}

\* SpecClient: every connection runs the web client, joins the voice channel
\* once and stays; the worker answers every call, the server handles every
\* request, and the component handles every event that has arrived.
\* The step a client handler makes, computed once.
Applied(st) == \E end \in {st} : Apply(end)
ClientJoins(s) ==
  /\ s \in connected /\ ~client[s].mounted /\ client[s].joins < MaxJoins
  /\ Applied(OnClientJoin(State, s))
ClientLeaves(s) ==
  /\ client[s].mounted /\ client[s].tasks = {} /\ client[s].inbox = <<>>
  /\ Applied(OnClientLeave(State, s))
ClientHandles(s) == client[s].inbox # <<>> /\ Applied(OnClientEvent(State, s))
DeviceLoaded(s) ==
  \E task \in client[s].tasks :
    task.kind = "load" /\ Applied(OnDeviceLoaded(State, s, task))
Replied(s) ==
  \E task \in client[s].tasks :
    task.kind # "load" /\ Applied(OnReply(State, s, task))
ClientProgress(s) == ClientHandles(s) \/ DeviceLoaded(s) \/ Replied(s)
JoinsOnce(s) == client[s].joins = 0 /\ ClientJoins(s)
NextClient ==
  \/ \E s \in Sockets : JoinsOnce(s)
  \/ \E s \in Sockets : ClientHandles(s)
  \/ \E s \in Sockets : DeviceLoaded(s)
  \/ \E s \in Sockets : Replied(s)

SpecClient ==
  /\ Init /\ [][NextClient]_vars
  /\ \A s \in Sockets : WF_vars(ClientProgress(s))

\* SpecRejoin: the web clients, one of which may leave the voice channel and
\* join it again.
NextRejoin ==
  \/ \E s \in Sockets : ClientJoins(s)
  \/ \E s \in Speakers : ClientLeaves(s)
  \/ \E s \in Sockets : ClientHandles(s)
  \/ \E s \in Sockets : DeviceLoaded(s)
  \/ \E s \in Sockets : Replied(s)

SpecRejoin == Init /\ [][NextRejoin]_vars

\* SpecClose: producers are closed by their owner's leave or disconnect or
\* by the close of their transport, and the worker's 'producerclose'
\* notification to a consumer of a closed producer is delivered in the end.
NextClose ==
  \/ \E s \in Sockets, ch \in Joined : JoinVoiceChannel(s, ch)
  \/ \E s \in Sockets, ch \in Joined : LeaveVoiceChannel(s, ch)
  \/ \E s \in Speakers : Disconnect(s)
  \/ \E s \in Sockets, ch \in Joined, dir \in OneDirection : CreateTransport(s, ch, dir)
  \/ \E s \in Speakers, t \in TransportIds : ConnectTransport(s, t)
  \/ \E s \in Speakers, t \in TransportIds : Produce(s, t)
  \/ \E s \in Listeners, p \in ProducerIds, t \in TransportIds : Consume(s, p, t, TRUE)
  \/ \E k \in 1..MaxConsumers : ProducerClose(k)
  \/ \E t \in TransportIds : DtlsStateClosed(t)

SpecClose ==
  /\ Init /\ [][NextClose]_vars
  /\ WF_vars(\E k \in 1..MaxConsumers : ProducerClose(k))

\* ---------------------------------------------------------------- properties
SessionsIn(c) == {s \in DOMAIN userSessions : userSessions[s].channelId = c}
TransportOwner(t) == transportObj[t].sock
ProducerOwner(p) == TransportOwner(producerObj[p].transport)
\* The messages of the latest step with event ev, in the order sent.
Sent(ev) == SelectSeq(emitted, LAMBDA m : m.ev = ev)
\* The latest step is the completed handler of event op.
Completed(op) == last.op = op /\ last.done

\* C1: after any sequence of join_voice_channel, leave_voice_channel and
\* disconnect events, each handled to completion, the orchestrator holds a
\* router for channel c if and only if at least one session has channelId c.
C1_RouterIffSession ==
  \A c \in Channels : Has(routers, c) <=> SessionsIn(c) # {}

\* C2: once the disconnect handler of a connection has completed, the
\* registries userSessions, transports, producers and consumers hold no
\* entry created by that connection.
C2_NothingLeftAfterDisconnect ==
  \A s \in Sockets \ connected :
    /\ ~Has(userSessions, s)
    /\ \A t \in transports : TransportOwner(t) # s
    /\ \A p \in DOMAIN producers : ProducerOwner(p) # s
    /\ \A k \in consumers : consumerObj[k].sock # s

\* C3: when produce succeeds for connection A whose session is in channel
\* c, new-producer for the new producer is delivered exactly once to every
\* other connection whose session is in c, and to no other connection, A
\* included.
C3_NewProducerToParticipants ==
  (Completed("produce") /\ last.ok) =>
    \A x \in Sockets :
      Count(emitted, x, "new-producer", last.id)
        = IF x # last.sock /\ x \in SessionsIn(last.chan) THEN 1 ELSE 0

\* C4: no connection receives producer-closed for the same producer twice,
\* and when a producer closes because its owner leaves or disconnects every
\* other participant of the owner's room receives producer-closed for it.
C4_ProducerClosedOnce ==
  /\ \A x \in Sockets, p \in ProducerIds : closedSeen[<<x, p>>] <= 1
  /\ (Completed("leave") \/ Completed("disconnect")) =>
       \A i \in 1..Len(Sent("producer-closed")) :
         \A x \in SessionsIn(Sent("producer-closed")[i].chan) :
           x \in Sent("producer-closed")[i].to

\* C5: a connection whose leave_voice_channel has been handled receives no
\* new-producer and no producer-closed until it joins again, whatever
\* channelId the leave carried.
C5_SilentAfterLeave ==
  \A x \in hasLeft :
    \A i \in 1..Len(emitted) :
      emitted[i].ev \in {"new-producer", "producer-closed"} => x \notin emitted[i].to

\* C6: when no handler is mid-execution, the (channel, connection) pairs of
\* the voice-channel membership index are the (session.channelId,
\* connection) pairs of the orchestrator's sessions.
MembershipPairs ==
  {x \in (DOMAIN voiceChannelUsers) \X Sockets : x[2] \in voiceChannelUsers[x[1]]}
SessionPairs == {<<userSessions[s].channelId, s>> : s \in DOMAIN userSessions}
C6_IndexMatchesSessions ==
  (pending = {} /\ last.done) => MembershipPairs = SessionPairs

\* C7: every create-transport, connect-transport, produce and consume
\* request is answered exactly once, with success true when the
\* orchestrator call succeeded (the transport, producer or consumer is
\* registered, the transport is connected) and with success false when it
\* failed.
RequestOps == {"create-transport", "connect-transport", "produce", "consume"}
Succeeded ==
  CASE last.op = "create-transport"  -> last.id \in transports
    [] last.op = "connect-transport" -> last.id \in transports /\ transportObj[last.id].dtls
    [] last.op = "produce"           -> Has(producers, last.id)
    [] last.op = "consume"           -> last.id \in consumers
    [] OTHER -> FALSE
C7_AnsweredExactlyOnce ==
  (last.op \in RequestOps /\ last.done) =>
    /\ Len(Sent("ack")) = 1
    /\ Sent("ack")[1].to = {last.sock}
    /\ Sent("ack")[1].ok = last.ok
    /\ last.ok => Succeeded
    /\ ~last.ok => last.id = None
C7_FailedConsumeAnswered ==
  /\ Completed("consume") /\ ~last.ok
  /\ producers # EmptyMap
  /\ Len(Sent("ack")) = 1 /\ ~Sent("ack")[1].ok

\* C8: when a connection's leave_voice_channel or disconnect was handled
\* while a call of its own was awaiting the worker, then once every pending
\* call has settled the orchestrator holds no session, transport, producer
\* or consumer of that connection and no router for a channel without
\* session.
C8_CleanAfterInterruptedCall ==
  (pending = {} /\ interrupted # {}) =>
    /\ \A s \in interrupted :
         /\ ~Has(userSessions, s)
         /\ \A t \in transports : TransportOwner(t) # s
         /\ \A p \in DOMAIN producers : ProducerOwner(p) # s
         /\ \A k \in consumers : consumerObj[k].sock # s
    /\ \A c \in DOMAIN routers : SessionsIn(c) # {}

\* C9: whatever the interleaving of concurrent join_voice_channel and
\* create-transport calls for one channel, no router is replaced in the
\* router map or left unreferenced without having been closed: every open
\* router is the one stored for its channel.
C9_NoRouterReplaced ==
  \A r \in Ids(routerObj) :
    ~routerObj[r].closed =>
      Has(routers, routerObj[r].chan) /\ routers[routerObj[r].chan] = r

\* C10: the existing-producers event of a join lists exactly the live
\* producers of the joined room that belong to its other participants.
LiveProducersOfOthers(s, c) ==
  {p \in DOMAIN producers :
     /\ producers[p].channelId = c
     /\ ~producerObj[p].closed
     /\ ProducerOwner(p) # s
     /\ ProducerOwner(p) \in SessionsIn(c)}
C10_ExistingProducersOfOthers ==
  (Completed("join") /\ last.ok) =>
    \A i \in 1..Len(Sent("existing-producers")) :
      Sent("existing-producers")[i].set = LiveProducersOfOthers(last.sock, last.chan)

\* C11: for each join of a connection to a channel, the connection receives
\* router-rtp-capabilities before existing-producers, and no new-producer
\* or producer-closed for that channel reaches it before the
\* existing-producers of that join.
JoinMessages ==
  SelectSeq(emitted, LAMBDA m : m.ev \in {"router-rtp-capabilities", "existing-producers"})
JoinsAwaited == {c \in pending : c.kind = "join"}
C11_JoinOrder ==
  /\ (Completed("join") /\ last.ok) =>
       /\ Len(JoinMessages) = 2
       /\ JoinMessages[1].ev = "router-rtp-capabilities"
       /\ JoinMessages[2].ev = "existing-producers"
       /\ \A i \in 1..2 : JoinMessages[i].to \subseteq {last.sock}
  /\ \A c \in JoinsAwaited :
       \A i \in 1..Len(emitted) :
         (emitted[i].ev \in {"new-producer", "producer-closed"} /\ emitted[i].chan = c.chan)
           => c.sock \notin emitted[i].to

\* C12: a create-transport from a connection without session is answered
\* with success false and leaves the router map, the transport registry and
\* the sessions as they were: no router is created for the channel named.
C12_CreateTransportWithoutSession ==
  [][(Completed("create-transport")' /\ ~Has(userSessions, last'.sock)) =>
       /\ ~last'.ok
       /\ routers' = routers
       /\ transports' = transports
       /\ userSessions' = userSessions]_vars

\* C13: a successful create-transport creates the transport on the router
\* of the room the caller's session is joined to, whatever channelId the
\* request carries.
RoomOf(s) == userSessions[s].channelId
C13_TransportOnOwnRoomRouter ==
  (Completed("create-transport") /\ last.ok) =>
    /\ Has(userSessions, last.sock)
    /\ Has(routers, RoomOf(last.sock))
    /\ transportObj[last.id].router = routers[RoomOf(last.sock)]

\* C14: a connect-transport that names a transport the calling connection
\* does not own is answered with success false without the worker's connect
\* being called on that transport.
C14_ConnectForeignTransportRefused ==
  \A s \in connected, t \in transports :
    TransportOwner(t) # s =>
      LET st == OnConnectTransport(State, s, t)
      IN /\ \A c \in st.pending : ~(c.kind = "connect" /\ c.obj = t)
         /\ st.last.done /\ ~st.last.ok

\* C15: every producer recorded in a session was created on a send
\* transport owned by the session's connection, every consumer recorded in
\* a session on a recv transport owned by it, and a produce or consume that
\* names any other transport is answered with success false at once.
OwnTransport(s, t, dir) ==
  t \in transports /\ TransportOwner(t) = s /\ transportObj[t].dir = dir
C15_OwnedDirectedTransports ==
  /\ \A s \in DOMAIN userSessions :
       /\ \A p \in SeqToSet(userSessions[s].producers) :
            /\ TransportOwner(producerObj[p].transport) = s
            /\ transportObj[producerObj[p].transport].dir = "send"
       /\ \A k \in SeqToSet(userSessions[s].consumers) :
            /\ TransportOwner(consumerObj[k].transport) = s
            /\ transportObj[consumerObj[k].transport].dir = "recv"
  /\ \A s \in Sockets, t \in TransportIds :
       (ProduceEnabled(s, t) /\ ~OwnTransport(s, t, "send")) =>
         LET st == OnProduce(State, s, t)
         IN st.pending = {} /\ st.last.done /\ ~st.last.ok
  /\ \A s \in Sockets, t \in TransportIds, p \in ProducerIds :
       (ConsumeEnabled(s, p, t, TRUE) /\ ~OwnTransport(s, t, "recv")) =>
         LET st == OnConsume(State, s, p, t, TRUE)
         IN st.pending = {} /\ st.last.done /\ ~st.last.ok

\* C16: consume succeeds only for a producer that exists in the room the
\* calling connection's session is joined to; a consume for a producer of
\* another room is answered with success false, creates no consumer and
\* changes no state.
InRoomOf(s, p) ==
  Has(producers, p) /\ Has(userSessions, s) /\ producers[p].channelId = RoomOf(s)
C16_ConsumeWithinRoom ==
  \A s \in Sockets, p \in ProducerIds, t \in TransportIds, compat \in BOOLEAN :
    (ConsumeEnabled(s, p, t, compat) /\ ~InRoomOf(s, p)) =>
      \A end \in Complete(OnConsume(State, s, p, t, compat)) :
        /\ ~end.last.ok
        /\ end.consumers = consumers
        /\ end.consumerObj = consumerObj
        /\ end.userSessions = userSessions

\* C17: when the router reports that the caller's rtpCapabilities cannot
\* consume the named producer, consume is answered at once with one failure
\* acknowledgement whose error is the message thrown for incompatible
\* codecs, no consumer is created, and the sessions and all registries
\* stay as they were.
RouterRefuses(s, p, t, compat) ==
  /\ s \in connected
  /\ Has(producers, p)
  /\ Has(routers, producers[p].channelId)
  /\ t \in transports
  /\ Has(userSessions, s)
  /\ ~CanConsume(State, routers[producers[p].channelId], p, compat)
Registries(st) ==
  <<st.routers, st.transports, st.producers, st.consumers, st.userSessions,
    st.routerObj, st.transportObj, st.producerObj, st.consumerObj>>
RefusedWith(st, s, error) ==
  /\ st.pending = pending
  /\ st.last.done /\ ~st.last.ok
  /\ Len(SelectSeq(st.emitted, LAMBDA m : m.ev = "ack")) = 1
  /\ \A i \in 1..Len(st.emitted) :
       st.emitted[i].ev = "ack" =>
         /\ st.emitted[i].to = {s}
         /\ ~st.emitted[i].ok
         /\ st.emitted[i].error = error
  /\ Registries(st) = Registries(State)
InNoChannel(s) ==
  /\ ~Has(userSessions, s)
  /\ rooms[s] = {}
  /\ \A c \in DOMAIN voiceChannelUsers : s \notin voiceChannelUsers[c]
ServerMaps(st) ==
  <<st.routers, st.userSessions, st.transports, st.producers, st.consumers,
    st.voiceChannelUsers>>
C18_JoinLeaveRestores ==
  \A s \in Sockets, c \in Channels :
    (JoinEnabled(s, c) /\ InNoChannel(s)) =>
      \A joined \in Complete(OnJoinVoiceChannel(State, s, c)) :
        ServerMaps(OnLeaveVoiceChannel(joined, s, c)) = ServerMaps(State)

\* C19: a second leave_voice_channel for the same channel by the same
\* connection, directly after the first, changes no server state
\* (membership index, sessions, routers, transports, producers, consumers)
\* and sends no producer-closed.
C19_SecondLeaveNoOp ==
  Completed("leave") =>
    LET st == OnLeaveVoiceChannel(State, last.sock, last.chan)
    IN /\ ServerMaps(st) = ServerMaps(State)
       /\ Registries(st) = Registries(State)
       /\ st.rooms = rooms
       /\ \A i \in 1..Len(st.emitted) : st.emitted[i].ev # "producer-closed"
C19_LeftWhileOthersProduce ==
  /\ Completed("leave")
  /\ Len(Sent("producer-closed")) > 0
  /\ \E x \in DOMAIN userSessions : x # last.sock
  /\ last.sock \in connected

\* C20: a repeated join_voice_channel by a connection for the channel it is
\* joined to leaves its session unchanged: the transports, producers and
\* consumers it holds stay recorded in the session, and a later leave still
\* closes and removes them.
C20_RejoinKeepsSession ==
  \A s \in DOMAIN userSessions :
    JoinEnabled(s, RoomOf(s)) =>
      \A rejoined \in Complete(OnJoinVoiceChannel(State, s, RoomOf(s))) :
        /\ rejoined.userSessions[s] = userSessions[s]
        /\ LET st == OnLeaveVoiceChannel(rejoined, s, RoomOf(s))
           IN /\ \A t \in st.transports : st.transportObj[t].sock # s
              /\ \A t \in Ids(st.transportObj) :
                   st.transportObj[t].sock = s => st.transportObj[t].closed

\* C21: each connection is listed in the membership index of at most one
\* voice channel.
ListedIn(s) == {c \in DOMAIN voiceChannelUsers : s \in voiceChannelUsers[c]}
C21_ListedInOneChannel ==
  \A s \in Sockets : Cardinality(ListedIn(s)) <= 1

\* C22: after every membership mutation (join, leave or disconnect) a
\* client that applies the voice_channel_users_update events sent for it
\* holds, for every channel, the server's current member list, and a
\* channel the mutation emptied is reported exactly once with no users.
Members(vcu, c) == IF Has(vcu, c) THEN vcu[c] ELSE {}
UpdatesFor(msgs, c) ==
  SelectSeq(msgs, LAMBDA m : m.ev = "voice_channel_users_update" /\ m.chan = c)
\* The member list of channel c a client holds after it applied msgs to the
\* list it held.
ClientView(held, msgs, c) ==
  IF UpdatesFor(msgs, c) = <<>> THEN held
  ELSE UpdatesFor(msgs, c)[Len(UpdatesFor(msgs, c))].set
C22_SnapshotsRebuildIndex ==
  [][(last'.op \in {"join", "leave", "disconnect"} /\ last'.done
        /\ voiceChannelUsers' # voiceChannelUsers) =>
       \A c \in Channels :
         /\ ClientView(Members(voiceChannelUsers, c), emitted', c)
              = Members(voiceChannelUsers', c)
         /\ (Members(voiceChannelUsers, c) # {} /\ Members(voiceChannelUsers', c) = {})
              => Len(UpdatesFor(emitted', c)) = 1]_vars

\* C23: on user_online the connection receives exactly one
\* voice_channel_users_update for each channel that has at least one
\* member, carrying that channel's members, and none for a channel without
\* members.
ToSocket(msgs, s) == SelectSeq(msgs, LAMBDA m : m.to = {s})
C23_CatchUpPerNonEmptyChannel ==
  Completed("user_online") =>
    \A c \in Channels :
      LET ups == UpdatesFor(ToSocket(emitted, last.sock), c)
      IN IF Members(voiceChannelUsers, c) # {}
         THEN Len(ups) = 1 /\ ups[1].set = voiceChannelUsers[c]
         ELSE Len(ups) = 0

\* C24: after any sequence of user_online and disconnect events, the
\* payload of the most recent users_update broadcast is the users of the
\* connections that have sent user_online and have not disconnected.
C24_PresenceSnapshot ==
  IF Completed("user_online") \/ Completed("disconnect")
  THEN /\ Len(Sent("users_update")) = 1
       /\ Sent("users_update")[1].set = announced
       /\ Sent("users_update")[1].to = connected
       /\ announced \subseteq connected
  ELSE Sent("users_update") = <<>>
C24_OnlineUserDisconnected ==
  /\ Completed("disconnect")
  /\ announced # {}
  /\ Sent("users_update")[1].set = announced
  /\ \E c \in DOMAIN voiceChannelUsers : voiceChannelUsers[c] # {}

\* C25: running the disconnect handler a second time for the same connection
\* leaves presence, the membership index and every registry of the voice
\* manager as the first run left them, and sends no producer-closed.
C25_SecondDisconnectNoOp ==
  Completed("disconnect") =>
    LET st == OnDisconnect(State, last.sock)
    IN /\ st.onlineUsers = onlineUsers
       /\ st.voiceChannelUsers = voiceChannelUsers
       /\ Registries(st) = Registries(State)
       /\ \A i \in 1..Len(st.emitted) : st.emitted[i].ev # "producer-closed"
C25_DisconnectedWhileProducing ==
  /\ Completed("disconnect")
  /\ Len(Sent("producer-closed")) > 0
  /\ \E x \in DOMAIN userSessions : x # last.sock /\ x \in connected
  /\ ~Has(userSessions, last.sock)

\* C26: when the transport of a participant reaches DTLS state closed, its
\* producers are closed and removed from the producer registry, and every
\* other participant of the room is sent producer-closed for each of them;
\* a participant that holds a live consumer of the producer may be told by
\* that consumer's 'producerclose' instead.
ToldOfClose(s, p) ==
  \/ \E i \in 1..Len(emitted) :
        /\ emitted[i].ev = "producer-closed"
        /\ emitted[i].id = p
        /\ s \in emitted[i].to
  \/ \E k \in Ids(consumerObj) :
        /\ consumerObj[k].producer = p
        /\ consumerObj[k].sock = s
        /\ ~consumerObj[k].closed
C26_DtlsClosedNotifiesRoom ==
  Completed("dtlsstatechange") =>
    \A p \in ProducersOn(State, {last.id}) :
      /\ producerObj[p].closed
      /\ ~Has(producers, p)
      /\ \A s \in SessionsIn(routerObj[transportObj[last.id].router].chan) :
           (s # TransportOwner(last.id) /\ s \in connected) => ToldOfClose(s, p)

\* C27: whenever a producer is closed (its owner leaves or disconnects, or
\* its transport closes), every consumer of that producer is closed and
\* removed from the consumer registry once the worker's 'producerclose'
\* notification has been handled.
ConsumerOfClosedProducer(k) ==
  /\ k \in Ids(consumerObj)
  /\ producerObj[consumerObj[k].producer].closed
ConsumerGone(k) ==
  /\ k \in Ids(consumerObj)
  /\ consumerObj[k].closed
  /\ k \notin consumers
AwaitsTransport(s) ==
  \E call \in pending : call.kind = "createWebRtcTransport" /\ call.sock = s
RefusedCreateTransport(s) ==
  /\ last.op = "create-transport" /\ last.sock = s /\ last.done /\ ~last.ok
  /\ \E i \in 1..Len(emitted) : emitted[i].ev = "ack" /\ ~emitted[i].ok
C28_StalledCreateTransportRefused ==
  \A s \in Sockets : AwaitsTransport(s) ~> RefusedCreateTransport(s)

\* C29: if router creation fails during join_voice_channel, the connection
\* ends up neither a participant of the channel nor listed in the membership
\* index of the channel.
C29_FailedJoinLeavesNoTrace ==
  (Completed("join") /\ ~last.ok) =>
    /\ last.sock \notin SessionsIn(last.chan)
    /\ last.sock \notin Members(voiceChannelUsers, last.chan)

\* C30: when leave or disconnect removes a participant, every transport,
\* producer and consumer recorded in its session is closed in the worker
\* before the session entry is deleted; the router of the room is still
\* open then, and when the last participant is removed it is closed before
\* the room's entry is dropped.
\* The state handleLeave has reached when it deletes the session
\* (voiceManager.js:333).
BeforeSessionDelete(st, s) ==
  LET session == st.userSessions[s]
  IN LeaveTransports(LeaveConsumers(LeaveProducers(st, s, session), session), session)
C30_ClosedBeforeSessionDeleted ==
  \A s \in DOMAIN userSessions :
    LET session == userSessions[s]
        st == BeforeSessionDelete(State, s)
    IN /\ \A t \in SeqToSet(session.transports) : st.transportObj[t].closed
       /\ \A p \in SeqToSet(session.producers) : st.producerObj[p].closed
       /\ \A k \in SeqToSet(session.consumers) : st.consumerObj[k].closed
       /\ Has(st.routers, session.channelId) =>
            ~st.routerObj[st.routers[session.channelId]].closed

\* C31: a participant holds at most one send transport, at most one recv
\* transport and at most one producer: a create-transport for a direction
\* already held, or a second produce, adds nothing to the session.
HeldTransports(s, dir) ==
  {t \in SeqToSet(userSessions[s].transports) : transportObj[t].dir = dir}
C31_OnePerDirection ==
  \A s \in DOMAIN userSessions :
    /\ \A dir \in Directions : Cardinality(HeldTransports(s, dir)) <= 1
    /\ Len(userSessions[s].producers) <= 1

\* C35: whenever no handler is mid-execution, the connections subscribed to
\* the broadcast room of channel c are the connections whose session has
\* channelId c.
Subscribers(c) == {s \in Sockets : c \in rooms[s]}
C35_RoomMatchesSessions ==
  (pending = {} /\ last.done) => \A c \in Channels : Subscribers(c) = SessionsIn(c)

\* C36: every entry of the transport, producer and consumer registries is
\* listed in the session of exactly one live connection, and every id listed
\* in a session's transports, producers or consumers is present in the
\* corresponding registry.
Holders(field, id) ==
  {s \in DOMAIN userSessions \cap connected : id \in SeqToSet(userSessions[s][field])}
C36_RegistriesMatchSessions ==
  /\ \A t \in transports : Cardinality(Holders("transports", t)) = 1
  /\ \A p \in DOMAIN producers : Cardinality(Holders("producers", p)) = 1
  /\ \A k \in consumers : Cardinality(Holders("consumers", k)) = 1
  /\ \A s \in DOMAIN userSessions :
       /\ SeqToSet(userSessions[s].transports) \subseteq transports
       /\ SeqToSet(userSessions[s].producers) \subseteq DOMAIN producers
       /\ SeqToSet(userSessions[s].consumers) \subseteq consumers

\* C37: no signaling event handled for connection A adds, removes or changes
\* the session record, the presence entry or the membership-index entry of a
\* different connection B.
SignalingOps ==
  {"user_online", "join", "leave", "user_speaking", "disconnect",
   "create-transport", "connect-transport", "produce", "consume"}
SessionOf(us, b) == IF Has(us, b) THEN <<us[b]>> ELSE <<>>
ListedChannels(vcu, b) == {c \in DOMAIN vcu : b \in vcu[c]}
C39_SpeakerIsJoined ==
  Completed("user_speaking") =>
    \A i \in 1..Len(emitted) :
      emitted[i].ev = "user_speaking_update" =>
        /\ emitted[i].to \subseteq Subscribers(emitted[i].chan)
        /\ emitted[i].to # {} =>
             \/ last.sock \in Subscribers(emitted[i].chan)
             \/ last.sock \in SessionsIn(emitted[i].chan)
             \/ last.sock \in Members(voiceChannelUsers, emitted[i].chan)

\* C33: for any sequence of send_message events on an existing text channel,
\* each message is appended exactly once to the channel's stored list in
\* handling order, and every connected client receives the new_message
\* events in that same order.
StoredChannels == AllChannels(data.servers)
ReceivedFor(s, c) == SelectSeq(received[s], LAMBDA r : r.chan = c)
IsPrefix(a, b) == Len(a) <= Len(b) /\ \A i \in 1..Len(a) : a[i] = b[i]
C33_StoredAndDeliveredInOrder ==
  \A n \in 1..Len(StoredChannels) :
    LET channel == StoredChannels[n]
    IN /\ \A i, j \in 1..Len(channel.messages) :
            i < j => channel.messages[i].id < channel.messages[j].id
       /\ \A s \in Sockets :
            LET got == [i \in 1..Len(ReceivedFor(s, channel.id)) |->
                          ReceivedFor(s, channel.id)[i].message]
            IN IF s \in connected THEN got = channel.messages
               ELSE IsPrefix(got, channel.messages)
C33_TwoSendersOneChannel ==
  /\ Completed("send_message") /\ last.ok
  /\ \E n \in 1..Len(StoredChannels) :
       LET ms == StoredChannels[n].messages
       IN /\ Len(ms) >= 2
          /\ ms[1].user # ms[2].user
          /\ \E s \in connected : Len(ReceivedFor(s, StoredChannels[n].id)) >= 2

\* C34: two logins with the same username return the same user.id, and for
\* any sequence of logins the stored user list never holds two users with
\* the same username.
UniqueUsernames(users) ==
  \A i, j \in 1..Len(users) : users[i].username = users[j].username => i = j
C34_LoginIsStable ==
  /\ [](/\ UniqueUsernames(data.users)
        /\ \A username \in Usernames :
             LET first  == OnLogin(State, username)
                 second == OnLogin(first, username)
             IN /\ first.last.ok /\ second.last.ok
                /\ second.last.id = first.last.id
                /\ second.data = first.data)
  /\ [][IsPrefix(data.users, data.users')]_vars
C34_KnownUserLoggedIn ==
  /\ Completed("login") /\ last.ok
  /\ Len(data.users) = 2
  /\ last.id = data.users[1].id
  /\ uuids > 2

\* C38: a send_message that names a server or a channel that does not exist
\* in the store leaves the stored document unchanged and broadcasts no
\* new_message.
ChannelExists(serverId, channelId) ==
  \E i \in 1..Len(data.servers) :
    /\ data.servers[i].id = serverId
    /\ \E j \in 1..Len(data.servers[i].channels) :
         data.servers[i].channels[j].id = channelId
C38_UnknownChannelIgnored ==
  \A s \in connected, serverId \in StoreIds, channelId \in StoreIds, content \in Contents :
    ~ChannelExists(serverId, channelId) =>
      LET st == OnSendMessage(State, s, serverId, channelId, content)
      IN /\ st.data = data
         /\ st.received = received
         /\ \A i \in 1..Len(st.emitted) : st.emitted[i].ev # "new_message"
C38_MessageToUnknownChannel ==
  /\ Completed("send_message") /\ ~last.ok
  /\ data.servers # <<>>
  /\ MessageCount(StoredChannels) > 0
  /\ emitted = <<>>

\* C32: with the web client's signaling, every participant that stays in a
\* room holds in the end a consumer for each producer of every other
\* participant that stays in the room, given compatible codecs and a worker
\* that answers every call.
HoldsConsumer(q, p) ==
  \E k \in consumers : consumerObj[k].producer = p /\ consumerObj[k].sock = q
ProducedBeside(q, p) ==
  /\ Has(producers, p)
  /\ Has(userSessions, q)
  /\ ProducerOwner(p) # q
  /\ producers[p].channelId = userSessions[q].channelId
C32_EveryProducerConsumed ==
  \A q \in Sockets, p \in 1..MaxSockets : ProducedBeside(q, p) ~> HoldsConsumer(q, p)

\* C40: the web client requests at most one recv transport per join of a
\* voice channel, also while existing-producers and new-producer are handled
\* before the reply to create-transport{recv} has arrived.
C40_OneRecvTransportPerJoin ==
  \A s \in Sockets : client[s].recvRequests <= 1

====
